---- MODULE Spec2Model ----
(***************************************************************************)
(* A model of wlhello: the Wayland/EGL session of src/main.cc (class       *)
(* context and main) and of src/window.cc (class Window).                  *)
(*                                                                         *)
(* The program is single threaded.  Its state is the members of the one    *)
(* session object; the compositor is the environment, which delivers       *)
(* events that the program handles in callbacks while it is inside a       *)
(* dispatch call.  Every call the program makes on the Wayland, EGL and    *)
(* xkbcommon libraries is recorded, in program order, in `out`.            *)
(***************************************************************************)
EXTENDS Integers, Sequences, FiniteSets, TLC

VARIABLES
    cls,        \* which class the session object is: "context" or "Window"
    pc,         \* position of the program
    m,          \* the members of the session object
    live,       \* library objects acquired and not yet released: <<type, handle>>
    egl_window, \* size of the native wl_egl_window as the EGL side sees it
    xkb,        \* contents of the objects m_xkb_keymap / m_xkb_state point to
    advertised, \* per interface, the number of wl_registry.global events so far
    nGlobals,   \* number of wl_registry.global events delivered
    nEvents,    \* number of other events delivered
    ev,         \* the event handled by the last step (NoEvent if none)
    out,        \* the library calls issued by the last step, in order
    closed,     \* an xdg_toplevel.close event has been dispatched
    afterClose, \* context: calls main's loop issued after m_wants_close was set
    acked       \* an xdg_surface.configure event has been acknowledged

vars == <<cls, pc, m, live, egl_window, xkb, advertised, nGlobals, nEvents,
          ev, out, closed, afterClose, acked>>

-----------------------------------------------------------------------------
(* Program constants *)

k_width == 800
k_height == 600
WL_SEAT_CAPABILITY_KEYBOARD == 2
WL_KEYBOARD_KEY_STATE_PRESSED == 1
EvdevOffset == 8

(* Bounds of the model *)

MaxGlobals == 4
MaxEvents == 4

Null == 0

Classes == {"context", "Window"}

\* wl_output stands for every interface the binder does not recognise.
Interfaces == {"wl_compositor", "xdg_wm_base", "wl_seat",
               "zxdg_decoration_manager_v1", "wl_output"}

Widths == {0, 640, k_width}
Heights == {0, k_height}
Serials == {1, 2147483647}
Capabilities == {0, 1, WL_SEAT_CAPABILITY_KEYBOARD, 3}
Scancodes == {30, 31}
KeyLists == {<<>>, <<30>>, <<31, 30>>}
KeyStates == {0, WL_KEYBOARD_KEY_STATE_PRESSED}
\* contents of a keymap descriptor: 0 does not compile, 1 is a layout
Blobs == {0, 1}
ModMasks == {0, 1}

-----------------------------------------------------------------------------
(* Library calls and events *)

Call(name, obj, a, b, c) == [call |-> name, obj |-> obj, a |-> a, b |-> b, c |-> c]

\* An event: its kind, the object it is sent to, and its arguments.
Event(kind, obj, interface, a, b, keys) ==
    [kind |-> kind, obj |-> obj, interface |-> interface, a |-> a, b |-> b,
     keys |-> keys]

NoEvent == Event("none", Null, "", 0, 0, <<>>)

\* The calls that create a library object (a is the handle returned) ...
AcquireCalls == {"wl_display_connect", "wl_display_get_registry", "wl_registry_bind",
                 "wl_compositor_create_surface", "xdg_wm_base_get_xdg_surface",
                 "xdg_surface_get_toplevel",
                 "zxdg_decoration_manager_v1_get_toplevel_decoration",
                 "wl_compositor_create_region", "wl_egl_window_create",
                 "xkb_context_new", "eglInitialize", "eglCreateWindowSurface",
                 "eglCreateContext", "wl_seat_get_keyboard",
                 "xkb_keymap_new_from_string", "xkb_state_new"}

\* ... and the calls that release the object whose handle is a.
ReleaseCalls == {"eglDestroyContext", "eglDestroySurface", "eglTerminate",
                 "xkb_keymap_unref", "xkb_state_unref", "xkb_context_unref",
                 "wl_egl_window_destroy", "wl_region_destroy", "wl_keyboard_release",
                 "zxdg_toplevel_decoration_v1_destroy", "xdg_toplevel_destroy",
                 "xdg_surface_destroy", "zxdg_decoration_manager_v1_destroy",
                 "wl_seat_destroy", "xdg_wm_base_destroy", "wl_surface_destroy",
                 "wl_compositor_destroy", "wl_registry_destroy",
                 "wl_display_disconnect"}

RECURSIVE LiveAfter(_, _)
\* The library objects alive after the calls cs were issued, in order, from l.
LiveAfter(l, cs) ==
    IF cs = <<>> THEN l
    ELSE LET c == Head(cs)
             l1 == IF c.call \in AcquireCalls /\ c.a # Null
                     THEN l \cup {<<c.obj, c.a>>}
                   ELSE IF c.call \in ReleaseCalls
                     THEN l \ {<<c.obj, c.a>>}
                   ELSE l
         IN LiveAfter(l1, Tail(cs))

RECURSIVE EglWindowAfter(_, _)
\* The size of the native window after the calls cs.
EglWindowAfter(sz, cs) ==
    IF cs = <<>> THEN sz
    ELSE LET c == Head(cs)
             s1 == IF c.call \in {"wl_egl_window_create", "wl_egl_window_resize"}
                      /\ c.a # Null
                     THEN <<c.b, c.c>>
                   ELSE sz
         IN EglWindowAfter(s1, Tail(cs))

-----------------------------------------------------------------------------
(* The session object *)

\* Default member initialisers.  Window's members carry other names in
\* window.hh (m_display, m_wm_base, m_decoration_manager, m_surface,
\* m_toplevel_decoration, m_keyboard); the model uses context's names for both.
Members(c) ==
    [m_wl_display |-> Null, m_registry |-> Null, m_compositor |-> Null,
     m_xdg_base |-> Null, m_seat |-> Null, m_xdg_dm |-> Null,
     m_wl_surface |-> Null, m_xdg_surface |-> Null, m_xdg_toplevel |-> Null,
     m_xdg_toplevel_decor |-> Null, m_wl_keyboard |-> Null,
     m_wants_close |-> FALSE,
     m_width |-> IF c = "context" THEN k_width ELSE 0,
     m_height |-> IF c = "context" THEN k_height ELSE 0,
     m_region |-> Null, m_egl_window |-> Null, m_egl_display |-> Null,
     m_egl_surface |-> Null, m_egl_context |-> Null,
     m_xkb_state |-> Null, m_xkb_context |-> Null, m_xkb_keymap |-> Null]

NoXkb == [blob |-> 0, mods |-> <<0, 0, 0>>, group |-> 0]

Init ==
    /\ cls \in Classes
    /\ pc = "connect"
    /\ m = Members(cls)
    /\ live = {}
    /\ egl_window = <<0, 0>>
    /\ xkb = NoXkb
    /\ advertised = [i \in Interfaces |-> 0]
    /\ nGlobals = 0
    /\ nEvents = 0
    /\ ev = NoEvent
    /\ out = <<>>
    /\ closed = FALSE
    /\ afterClose = <<>>
    /\ acked = FALSE

\* The calls of cs that main's loop should no longer issue once the session
\* wants to close.
RECURSIVE LoopCalls(_)
LoopCalls(cs) ==
    IF cs = <<>> THEN <<>>
    ELSE IF Head(cs).call \in {"wl_display_dispatch_pending", "eglSwapBuffers"}
           THEN <<Head(cs).call>> \o LoopCalls(Tail(cs))
         ELSE LoopCalls(Tail(cs))

\* A step of the program outside any callback: it issues the calls cs, leaves
\* the members mm and continues at next.
Step(mm, cs, next) ==
    /\ m' = mm
    /\ out' = cs
    /\ live' = LiveAfter(live, cs)
    /\ egl_window' = EglWindowAfter(egl_window, cs)
    /\ ev' = NoEvent
    /\ pc' = next
    /\ afterClose' = IF cls = "context" /\ m.m_wants_close
                       THEN afterClose \o LoopCalls(cs)
                     ELSE afterClose
    /\ UNCHANGED <<cls, xkb, advertised, nGlobals, nEvents, closed, acked>>

-----------------------------------------------------------------------------
(* Construction.  A constructor runs as three steps: up to the first        *)
(* dispatch call; the callbacks run by wl_display_dispatch and              *)
(* wl_display_roundtrip; everything after the round trip.                   *)

\* The state of a running constructor: the members, the calls issued so far
\* and whether it is still running ("run"), has thrown ("throw") or has
\* passed a null object to the library ("crash").
Running(mm) == [m |-> mm, out |-> <<>>, status |-> "run"]

\* One library call that returns the handle h into member f; when checked,
\* a null result throws std::runtime_error.
Acquire(st, f, call, obj, h, b, c, checked) ==
    IF st.status # "run" THEN st
    ELSE [m |-> [st.m EXCEPT ![f] = h],
          out |-> Append(st.out, Call(call, obj, h, b, c)),
          status |-> IF checked /\ h = Null THEN "throw" ELSE "run"]

\* One library call on the object h that returns nothing.
Do(st, call, obj, h, b, c) ==
    IF st.status # "run" THEN st
    ELSE [st EXCEPT !.out = Append(st.out, Call(call, obj, h, b, c))]

\* The library calls that can fail while a session is constructed.
FailPoints == {"wl_display_connect", "wl_display_get_registry",
               "wl_compositor_create_surface", "xdg_wm_base_get_xdg_surface",
               "xdg_surface_get_toplevel",
               "zxdg_decoration_manager_v1_get_toplevel_decoration",
               "wl_compositor_create_region", "wl_egl_window_create",
               "xkb_context_new", "eglGetDisplay", "eglInitialize",
               "eglChooseConfig", "eglCreateWindowSurface", "eglCreateContext",
               "eglMakeCurrent"}

\* The handle a library call returns: 1, or null when the call is in fail.
Handle(call, fail) == IF call \in fail THEN Null ELSE 1

\* Constructor, up to the first dispatch: connect and get the registry.
\* Window does not check the registry before it adds the listener to it.
ctor_connect(c, mm, fail) ==
    LET s1 == Acquire(Running(mm), "m_wl_display", "wl_display_connect",
                      "wl_display", Handle("wl_display_connect", fail), 0, 0, TRUE)
        s2 == Acquire(s1, "m_registry", "wl_display_get_registry", "wl_registry",
                      Handle("wl_display_get_registry", fail), 0, 0, c = "context")
        s3 == Do(s2, "wl_registry_add_listener", "wl_registry", s2.m.m_registry, 0, 0)
    IN IF s3.status = "run" /\ s3.m.m_registry = Null
         THEN [s3 EXCEPT !.status = "crash"]
       ELSE s3

\* Fault: the check forgets xdg_wm_base.
required_globals_missing_no_base(c, mm) ==
    \/ mm.m_compositor = Null
    \/ (c = "Window" /\ mm.m_seat = Null)

\* The required-capability check after the round trip.
required_globals_missing(c, mm) ==
    \/ mm.m_compositor = Null
    \/ (c = "Window" /\ mm.m_seat = Null)
    \/ mm.m_xdg_base = Null

check_globals(c, st) ==
    IF st.status # "run" THEN st
    ELSE IF required_globals_missing(c, st.m) THEN [st EXCEPT !.status = "throw"]
    ELSE st

\* Surface, xdg_surface and toplevel, then the decoration when a manager is bound.
create_surfaces(st, fail) ==
    LET s1 == Acquire(st, "m_wl_surface", "wl_compositor_create_surface", "wl_surface",
                      Handle("wl_compositor_create_surface", fail),
                      st.m.m_compositor, 0, TRUE)
        s2 == Acquire(s1, "m_xdg_surface", "xdg_wm_base_get_xdg_surface", "xdg_surface",
                      Handle("xdg_wm_base_get_xdg_surface", fail),
                      s1.m.m_xdg_base, 0, TRUE)
        s3 == Do(s2, "xdg_surface_add_listener", "xdg_surface", s2.m.m_xdg_surface, 0, 0)
        s4 == Acquire(s3, "m_xdg_toplevel", "xdg_surface_get_toplevel", "xdg_toplevel",
                      Handle("xdg_surface_get_toplevel", fail), 0, 0, TRUE)
        s5 == Do(s4, "xdg_toplevel_set_title", "xdg_toplevel", s4.m.m_xdg_toplevel, 0, 0)
    IN Do(s5, "xdg_toplevel_add_listener", "xdg_toplevel", s5.m.m_xdg_toplevel, 0, 0)

\* Fault: the decoration is requested whether or not a manager is bound.
create_decoration_always(st, fail) ==
    IF st.status # "run" THEN st
    ELSE LET s1 == Acquire(st, "m_xdg_toplevel_decor",
                           "zxdg_decoration_manager_v1_get_toplevel_decoration",
                           "zxdg_toplevel_decoration_v1",
                           Handle("zxdg_decoration_manager_v1_get_toplevel_decoration", fail),
                           st.m.m_xdg_dm, 0, FALSE)
         IN Do(s1, "zxdg_toplevel_decoration_v1_set_mode",
               "zxdg_toplevel_decoration_v1", s1.m.m_xdg_toplevel_decor, 2, 0)

\* set_mode is called on whatever get_toplevel_decoration returned.
create_decoration(st, fail) ==
    IF st.status # "run" \/ st.m.m_xdg_dm = Null THEN st
    ELSE LET s1 == Acquire(st, "m_xdg_toplevel_decor",
                           "zxdg_decoration_manager_v1_get_toplevel_decoration",
                           "zxdg_toplevel_decoration_v1",
                           Handle("zxdg_decoration_manager_v1_get_toplevel_decoration", fail),
                           st.m.m_xdg_dm, 0, FALSE)
             s2 == Do(s1, "zxdg_toplevel_decoration_v1_set_mode",
                      "zxdg_toplevel_decoration_v1", s1.m.m_xdg_toplevel_decor, 2, 0)
         IN IF s1.m.m_xdg_toplevel_decor = Null
              THEN [s2 EXCEPT !.status = "crash"]
            ELSE s2

commit_surface(st) == Do(st, "wl_surface_commit", "wl_surface", st.m.m_wl_surface, 0, 0)

create_region(st, fail) ==
    LET s0 == IF st.status # "run" THEN st
              ELSE [st EXCEPT !.m = [st.m EXCEPT !.m_width = k_width,
                                                 !.m_height = k_height]]
        s1 == Acquire(s0, "m_region", "wl_compositor_create_region", "wl_region",
                      Handle("wl_compositor_create_region", fail),
                      s0.m.m_compositor, 0, TRUE)
        s2 == Do(s1, "wl_region_add", "wl_region", s1.m.m_region,
                 s1.m.m_width, s1.m.m_height)
    IN Do(s2, "wl_surface_set_opaque_region", "wl_surface", s2.m.m_wl_surface,
          s2.m.m_region, 0)

create_egl_window(st, fail) ==
    Acquire(st, "m_egl_window", "wl_egl_window_create", "wl_egl_window",
            Handle("wl_egl_window_create", fail), st.m.m_width, st.m.m_height, TRUE)

create_xkb_context(st, fail) ==
    Acquire(st, "m_xkb_context", "xkb_context_new", "xkb_context",
            Handle("xkb_context_new", fail), 0, 0, TRUE)

\* eglGetDisplay .. eglCreateContext.  The result of eglCreateWindowSurface
\* is not checked.
create_egl_context(st, fail) ==
    LET s1 == Acquire(st, "m_egl_display", "eglGetDisplay", "egl_display_handle",
                      Handle("eglGetDisplay", fail), 0, 0, TRUE)
        s2 == Do(s1, "eglInitialize", "egl_display",
                 IF "eglInitialize" \in fail THEN Null ELSE s1.m.m_egl_display, 0, 0)
        s3 == IF s2.status = "run" /\ "eglInitialize" \in fail
                THEN [s2 EXCEPT !.status = "throw"] ELSE s2
        s4 == Do(s3, "eglChooseConfig", "egl_display_handle", s3.m.m_egl_display,
                 Handle("eglChooseConfig", fail), 0)
        s5 == IF s4.status = "run" /\ "eglChooseConfig" \in fail
                THEN [s4 EXCEPT !.status = "throw"] ELSE s4
        s6 == Acquire(s5, "m_egl_surface", "eglCreateWindowSurface", "egl_surface",
                      Handle("eglCreateWindowSurface", fail), s5.m.m_egl_window, 0, FALSE)
    IN Acquire(s6, "m_egl_context", "eglCreateContext", "egl_context",
               Handle("eglCreateContext", fail), 0, 0, TRUE)

\* eglMakeCurrent, throwing when it fails.
make_current(st, fail) ==
    LET s1 == Do(st, "eglMakeCurrent", "egl_context", st.m.m_egl_context,
                 st.m.m_egl_surface, Handle("eglMakeCurrent", fail))
    IN IF s1.status = "run" /\ "eglMakeCurrent" \in fail
         THEN [s1 EXCEPT !.status = "throw"] ELSE s1

\* Constructor, after the round trip.
ctor_tail(c, mm, fail) ==
    LET s1 == create_decoration(create_surfaces(check_globals(c, Running(mm)), fail), fail)
        s2 == create_region(commit_surface(s1), fail)
    IN IF c = "context"
         THEN make_current(
                create_egl_context(
                  create_xkb_context(create_egl_window(s2, fail), fail), fail), fail)
       ELSE create_egl_context(
              create_egl_window(create_xkb_context(s2, fail), fail), fail)

-----------------------------------------------------------------------------
(* Destruction *)

\* Fault: the seat is destroyed before the keyboard that was got from it.
destructor_calls_seat_first(c) ==
    << <<"eglDestroyContext", "egl_context", "m_egl_context">>,
       <<"eglDestroySurface", "egl_surface", "m_egl_surface">>,
       <<"eglTerminate", "egl_display", "m_egl_display">>,
       <<"xkb_keymap_unref", "xkb_keymap", "m_xkb_keymap">>,
       <<"xkb_state_unref", "xkb_state", "m_xkb_state">>,
       <<"xkb_context_unref", "xkb_context", "m_xkb_context">>,
       <<"wl_egl_window_destroy", "wl_egl_window", "m_egl_window">>,
       <<"wl_region_destroy", "wl_region", "m_region">>,
       <<"wl_seat_destroy", "wl_seat", "m_seat">>,
       <<"wl_keyboard_release", "wl_keyboard", "m_wl_keyboard">>,
       <<"zxdg_toplevel_decoration_v1_destroy", "zxdg_toplevel_decoration_v1",
         "m_xdg_toplevel_decor">>,
       <<"xdg_toplevel_destroy", "xdg_toplevel", "m_xdg_toplevel">>,
       <<"xdg_surface_destroy", "xdg_surface", "m_xdg_surface">>,
       <<"zxdg_decoration_manager_v1_destroy", "zxdg_decoration_manager_v1",
         "m_xdg_dm">>,
       <<"xdg_wm_base_destroy", "xdg_wm_base", "m_xdg_base">>,
       <<"wl_surface_destroy", "wl_surface", "m_wl_surface">>,
       <<"wl_compositor_destroy", "wl_compositor", "m_compositor">>,
       <<"wl_registry_destroy", "wl_registry", "m_registry">>,
       <<"wl_display_disconnect", "wl_display", "m_wl_display">> >>

\* The release calls of the destructor, in program order: <<call, type, member>>.
destructor_calls(c) ==
    IF c = "context"
      THEN << <<"eglDestroyContext", "egl_context", "m_egl_context">>,
              <<"eglDestroySurface", "egl_surface", "m_egl_surface">>,
              <<"eglTerminate", "egl_display", "m_egl_display">>,
              <<"xkb_keymap_unref", "xkb_keymap", "m_xkb_keymap">>,
              <<"xkb_state_unref", "xkb_state", "m_xkb_state">>,
              <<"xkb_context_unref", "xkb_context", "m_xkb_context">>,
              <<"wl_egl_window_destroy", "wl_egl_window", "m_egl_window">>,
              <<"wl_region_destroy", "wl_region", "m_region">>,
              <<"wl_keyboard_release", "wl_keyboard", "m_wl_keyboard">>,
              <<"zxdg_toplevel_decoration_v1_destroy", "zxdg_toplevel_decoration_v1",
                "m_xdg_toplevel_decor">>,
              <<"xdg_toplevel_destroy", "xdg_toplevel", "m_xdg_toplevel">>,
              <<"xdg_surface_destroy", "xdg_surface", "m_xdg_surface">>,
              <<"zxdg_decoration_manager_v1_destroy", "zxdg_decoration_manager_v1",
                "m_xdg_dm">>,
              <<"wl_seat_destroy", "wl_seat", "m_seat">>,
              <<"xdg_wm_base_destroy", "xdg_wm_base", "m_xdg_base">>,
              <<"wl_surface_destroy", "wl_surface", "m_wl_surface">>,
              <<"wl_compositor_destroy", "wl_compositor", "m_compositor">>,
              <<"wl_registry_destroy", "wl_registry", "m_registry">>,
              <<"wl_display_disconnect", "wl_display", "m_wl_display">> >>
    ELSE << <<"eglDestroyContext", "egl_context", "m_egl_context">>,
            <<"eglDestroySurface", "egl_surface", "m_egl_surface">>,
            <<"eglTerminate", "egl_display", "m_egl_display">>,
            <<"wl_egl_window_destroy", "wl_egl_window", "m_egl_window">>,
            <<"xkb_keymap_unref", "xkb_keymap", "m_xkb_keymap">>,
            <<"xkb_state_unref", "xkb_state", "m_xkb_state">>,
            <<"xkb_context_unref", "xkb_context", "m_xkb_context">>,
            <<"zxdg_toplevel_decoration_v1_destroy", "zxdg_toplevel_decoration_v1",
              "m_xdg_toplevel_decor">>,
            <<"xdg_toplevel_destroy", "xdg_toplevel", "m_xdg_toplevel">>,
            <<"xdg_surface_destroy", "xdg_surface", "m_xdg_surface">>,
            <<"wl_surface_destroy", "wl_surface", "m_wl_surface">>,
            <<"wl_keyboard_release", "wl_keyboard", "m_wl_keyboard">>,
            <<"wl_region_destroy", "wl_region", "m_region">>,
            <<"zxdg_decoration_manager_v1_destroy", "zxdg_decoration_manager_v1",
              "m_xdg_dm">>,
            <<"xdg_wm_base_destroy", "xdg_wm_base", "m_xdg_base">>,
            <<"wl_seat_destroy", "wl_seat", "m_seat">>,
            <<"wl_compositor_destroy", "wl_compositor", "m_compositor">>,
            <<"wl_registry_destroy", "wl_registry", "m_registry">>,
            <<"wl_display_disconnect", "wl_display", "m_wl_display">> >>

\* The EGL and xkbcommon release calls accept a null handle; the Wayland ones
\* dereference the object they are given.
NullSafeCalls == {"eglDestroyContext", "eglDestroySurface", "eglTerminate",
                  "xkb_keymap_unref", "xkb_state_unref", "xkb_context_unref"}

RECURSIVE destroy_from(_, _, _)
destroy_from(st, ds, i) ==
    IF i > Len(ds) \/ st.status # "run" THEN st
    ELSE LET d == ds[i]
             h == st.m[d[3]]
             s1 == Do(st, d[1], d[2], h, 0, 0)
         IN destroy_from(IF h = Null /\ d[1] \notin NullSafeCalls
                           THEN [s1 EXCEPT !.status = "crash"] ELSE s1,
                         ds, i + 1)

destructor(c, mm) == destroy_from(Running(mm), destructor_calls(c), 1)

-----------------------------------------------------------------------------
(* Callbacks.  Each returns the members, the keyboard contents and the calls *)
(* it issued, and whether it passed a null object to the library.            *)

R(mm, x, cs, crash) == [m |-> mm, xkb |-> x, out |-> cs, crash |-> crash]

keyboard_bit(caps) == (caps \div WL_SEAT_CAPABILITY_KEYBOARD) % 2 = 1

\* Fault: xdg_wm_base is bound only when the compositor is already bound.
cb_registry_global_add_ordered(mm, x, id, interface) ==
    IF interface = "wl_compositor"
      THEN R([mm EXCEPT !.m_compositor = id], x,
             <<Call("wl_registry_bind", interface, id, 1, 0)>>, FALSE)
    ELSE IF interface = "xdg_wm_base" /\ mm.m_compositor # Null
      THEN R([mm EXCEPT !.m_xdg_base = id], x,
             <<Call("wl_registry_bind", interface, id, 1, 0),
               Call("xdg_wm_base_add_listener", interface, id, 0, 0)>>, FALSE)
    ELSE IF interface = "wl_seat"
      THEN R([mm EXCEPT !.m_seat = id], x,
             <<Call("wl_registry_bind", interface, id, 7, 0),
               Call("wl_seat_add_listener", interface, id, 0, 0)>>, FALSE)
    ELSE IF interface = "zxdg_decoration_manager_v1"
      THEN R([mm EXCEPT !.m_xdg_dm = id], x,
             <<Call("wl_registry_bind", interface, id, 1, 0)>>, FALSE)
    ELSE R(mm, x, <<>>, FALSE)

\* wl_registry.global
cb_registry_global_add(mm, x, id, interface) ==
    IF interface = "wl_compositor"
      THEN R([mm EXCEPT !.m_compositor = id], x,
             <<Call("wl_registry_bind", interface, id, 1, 0)>>, FALSE)
    ELSE IF interface = "xdg_wm_base"
      THEN R([mm EXCEPT !.m_xdg_base = id], x,
             <<Call("wl_registry_bind", interface, id, 1, 0),
               Call("xdg_wm_base_add_listener", interface, id, 0, 0)>>, FALSE)
    ELSE IF interface = "wl_seat"
      THEN R([mm EXCEPT !.m_seat = id], x,
             <<Call("wl_registry_bind", interface, id, 7, 0),
               Call("wl_seat_add_listener", interface, id, 0, 0)>>, FALSE)
    ELSE IF interface = "zxdg_decoration_manager_v1"
      THEN R([mm EXCEPT !.m_xdg_dm = id], x,
             <<Call("wl_registry_bind", interface, id, 1, 0)>>, FALSE)
    ELSE R(mm, x, <<>>, FALSE)

\* wl_registry.global_remove: context registers no function for it (the
\* library aborts on an event without one), Window an empty one.
cb_registry_global_remove(c, mm, x) == R(mm, x, <<>>, c = "context")

\* Fault: the pong goes to m_xdg_base, not to the object that was pinged.
cb_xdg_base_ping_member(mm, x, base, serial) ==
    R(mm, x, <<Call("xdg_wm_base_pong", "xdg_wm_base", mm.m_xdg_base, serial, 0)>>, FALSE)

\* xdg_wm_base.ping
cb_xdg_base_ping(mm, x, base, serial) ==
    R(mm, x, <<Call("xdg_wm_base_pong", "xdg_wm_base", base, serial, 0)>>, FALSE)

\* Fault: a keyboard is acquired on every event with the keyboard bit.
cb_seat_capabilities_reacquire(c, mm, x, seat, caps) ==
    LET has_keyboard == keyboard_bit(caps)
        from == IF c = "context" THEN mm.m_seat ELSE seat
    IN IF has_keyboard
         THEN R([mm EXCEPT !.m_wl_keyboard = from], x,
                <<Call("wl_seat_get_keyboard", "wl_keyboard", from, 0, 0),
                  Call("wl_keyboard_add_listener", "wl_keyboard", from, 0, 0)>>, FALSE)
       ELSE IF mm.m_wl_keyboard # Null
         THEN R([mm EXCEPT !.m_wl_keyboard = Null], x,
                <<Call("wl_keyboard_release", "wl_keyboard", mm.m_wl_keyboard, 0, 0)>>,
                FALSE)
       ELSE R(mm, x, <<>>, FALSE)

\* wl_seat.capabilities: context asks m_seat for the keyboard, Window the
\* seat the event came from.
cb_seat_capabilities(c, mm, x, seat, caps) ==
    LET has_keyboard == keyboard_bit(caps)
        from == IF c = "context" THEN mm.m_seat ELSE seat
    IN IF has_keyboard /\ mm.m_wl_keyboard = Null
         THEN R([mm EXCEPT !.m_wl_keyboard = from], x,
                <<Call("wl_seat_get_keyboard", "wl_keyboard", from, 0, 0),
                  Call("wl_keyboard_add_listener", "wl_keyboard", from, 0, 0)>>, FALSE)
       ELSE IF ~has_keyboard /\ mm.m_wl_keyboard # Null
         THEN R([mm EXCEPT !.m_wl_keyboard = Null], x,
                <<Call("wl_keyboard_release", "wl_keyboard", mm.m_wl_keyboard, 0, 0)>>,
                FALSE)
       ELSE R(mm, x, <<>>, FALSE)

\* wl_seat.name
cb_seat_name(mm, x) == R(mm, x, <<>>, FALSE)

\* Fault: the serial is cut to 16 bits on its way to the acknowledgement.
cb_xdg_surface_configure_short(mm, x, xdg_surface, serial) ==
    R(mm, x, <<Call("xdg_surface_ack_configure", "xdg_surface", xdg_surface,
                    serial % 65536, 0)>>, FALSE)

\* xdg_surface.configure
cb_xdg_surface_configure(mm, x, xdg_surface, serial) ==
    R(mm, x, <<Call("xdg_surface_ack_configure", "xdg_surface", xdg_surface, serial, 0)>>,
      FALSE)

\* Fault: the new size is stored and committed but the native window is not
\* resized.
resize_without_egl(mm, x, width, height) ==
    IF width = mm.m_width /\ height = mm.m_height
      THEN R(mm, x, <<>>, FALSE)
    ELSE LET m1 == [mm EXCEPT !.m_width = width, !.m_height = height]
         IN R(m1, x, <<Call("wl_surface_commit", "wl_surface", m1.m_wl_surface, 0, 0)>>,
              FALSE)

\* Fault: no early return for an unchanged size.
resize_always(mm, x, width, height) ==
    LET m1 == [mm EXCEPT !.m_width = width, !.m_height = height]
    IN R(m1, x,
         (IF m1.m_egl_window # Null
            THEN <<Call("wl_egl_window_resize", "wl_egl_window", m1.m_egl_window,
                        m1.m_width, m1.m_height)>>
          ELSE <<>>)
         \o <<Call("wl_surface_commit", "wl_surface", m1.m_wl_surface, 0, 0)>>,
         FALSE)

\* context::resize
resize(mm, x, width, height) ==
    IF width = mm.m_width /\ height = mm.m_height
      THEN R(mm, x, <<>>, FALSE)
    ELSE LET m1 == [mm EXCEPT !.m_width = width, !.m_height = height]
         IN R(m1, x,
              (IF m1.m_egl_window # Null
                 THEN <<Call("wl_egl_window_resize", "wl_egl_window", m1.m_egl_window,
                             m1.m_width, m1.m_height)>>
               ELSE <<>>)
              \o <<Call("wl_surface_commit", "wl_surface", m1.m_wl_surface, 0, 0)>>,
              FALSE)

\* xdg_toplevel.configure: context resizes, Window ignores the event.
cb_xdg_toplevel_configure(c, mm, x, width, height) ==
    IF c = "context" THEN resize(mm, x, width, height) ELSE R(mm, x, <<>>, FALSE)

\* Fault: a second close event takes the request back.
cb_xdg_toplevel_close_toggle(mm, x) ==
    R([mm EXCEPT !.m_wants_close = ~mm.m_wants_close], x, <<>>, FALSE)

\* xdg_toplevel.close
cb_xdg_toplevel_close(mm, x) == R([mm EXCEPT !.m_wants_close = TRUE], x, <<>>, FALSE)

\* What the keymap compiled from blob resolves keycode to under the
\* modifiers and group of x (the keymap compiler is an external library; all
\* that matters is that the symbol depends on each of them).
KeySym(x, keycode) ==
    IF x.blob = 0 THEN 0
    ELSE x.blob * 100000 + x.group * 10000
         + (IF 1 \in {x.mods[1], x.mods[2], x.mods[3]} THEN 1000 ELSE 0)
         + (keycode % 1000)

\* The outcomes of handing a null xkb object to a function that dereferences
\* it: the process dies, or the call comes back without a usable result.
UBOutcomes == {"crash", "continue"}

\* Fault: a derived state already held is kept when the keymap is replaced.
cb_kb_map_keep_state(mm, x, blob, gen, ub) ==
    LET xkb_keymap == IF blob = 0 THEN Null ELSE gen
        xkb_state == IF xkb_keymap = Null THEN Null ELSE gen
        compile == <<Call("mmap", "fd", gen, 0, 0),
                     Call("xkb_keymap_new_from_string", "xkb_keymap", xkb_keymap,
                          mm.m_xkb_context, 0),
                     Call("munmap", "fd", gen, 0, 0),
                     Call("close", "fd", gen, 0, 0)>>
    IN IF mm.m_xkb_state # Null
         THEN R([mm EXCEPT !.m_xkb_keymap = xkb_keymap],
                [blob |-> blob, mods |-> x.mods, group |-> x.group],
                compile \o <<Call("xkb_keymap_unref", "xkb_keymap", mm.m_xkb_keymap, 0, 0)>>,
                FALSE)
       ELSE IF xkb_keymap = Null /\ ub = "crash"
         THEN R(mm, x, Append(compile, Call("xkb_state_new", "xkb_state", Null, Null, 0)),
                TRUE)
       ELSE R([mm EXCEPT !.m_xkb_keymap = xkb_keymap, !.m_xkb_state = xkb_state],
              [blob |-> blob, mods |-> <<0, 0, 0>>, group |-> 0],
              compile \o <<Call("xkb_state_new", "xkb_state", xkb_state, xkb_keymap, 0),
                           Call("xkb_keymap_unref", "xkb_keymap", mm.m_xkb_keymap, 0, 0),
                           Call("xkb_state_unref", "xkb_state", mm.m_xkb_state, 0, 0)>>,
              FALSE)

\* wl_keyboard.keymap.  gen names the objects created by this event.
\* xkb_keymap_new_from_string returns null for a blob that does not compile;
\* xkb_state_new takes a reference on the keymap it is given.
cb_kb_map(mm, x, blob, gen, ub) ==
    LET xkb_keymap == IF blob = 0 THEN Null ELSE gen
        xkb_state == IF xkb_keymap = Null THEN Null ELSE gen
        compile == <<Call("mmap", "fd", gen, 0, 0),
                     Call("xkb_keymap_new_from_string", "xkb_keymap", xkb_keymap,
                          mm.m_xkb_context, 0),
                     Call("munmap", "fd", gen, 0, 0),
                     Call("close", "fd", gen, 0, 0),
                     Call("xkb_state_new", "xkb_state", xkb_state, xkb_keymap, 0)>>
    IN IF xkb_keymap = Null /\ ub = "crash"
         THEN R(mm, x, compile, TRUE)
       ELSE R([mm EXCEPT !.m_xkb_keymap = xkb_keymap, !.m_xkb_state = xkb_state],
              [blob |-> blob, mods |-> <<0, 0, 0>>, group |-> 0],
              compile \o <<Call("xkb_keymap_unref", "xkb_keymap", mm.m_xkb_keymap, 0, 0),
                           Call("xkb_state_unref", "xkb_state", mm.m_xkb_state, 0, 0)>>,
              FALSE)

\* Fault: the scancode is looked up as it came, without the evdev offset.
translate_raw(c, mm, x, key, action) ==
    LET sym == IF mm.m_xkb_state = Null THEN 0 ELSE KeySym(x, key)
    IN <<Call("xkb_state_key_get_one_sym", "xkb_state", mm.m_xkb_state, key, sym)>>
       \o (IF c = "context" THEN <<Call("std::cout", action, sym, 0, 0)>> ELSE <<>>)

\* The translation of one scancode, shared by the key and the enter callback:
\* the lookup of key + 8 and, in context, the line printed.
translate(c, mm, x, key, action) ==
    LET keycode == key + EvdevOffset
        sym == IF mm.m_xkb_state = Null THEN 0 ELSE KeySym(x, keycode)
    IN <<Call("xkb_state_key_get_one_sym", "xkb_state", mm.m_xkb_state, keycode, sym)>>
       \o (IF c = "context" THEN <<Call("std::cout", action, sym, 0, 0)>> ELSE <<>>)

RECURSIVE translate_all(_, _, _, _)
translate_all(c, mm, x, keys) ==
    IF keys = <<>> THEN <<>>
    ELSE translate(c, mm, x, Head(keys), "pressed  ")
         \o translate_all(c, mm, x, Tail(keys))

\* Fault: only the first scancode of the list is translated.
cb_kb_enter_head(c, mm, x, keys, ub) ==
    IF keys # <<>> /\ mm.m_xkb_state = Null /\ ub = "crash"
      THEN R(mm, x, <<Call("xkb_state_key_get_one_sym", "xkb_state", Null,
                           Head(keys) + EvdevOffset, 0)>>, TRUE)
    ELSE R(mm, x, IF keys = <<>> THEN <<>>
                  ELSE translate(c, mm, x, Head(keys), "pressed  "), FALSE)

\* wl_keyboard.enter
cb_kb_enter(c, mm, x, keys, ub) ==
    IF keys # <<>> /\ mm.m_xkb_state = Null /\ ub = "crash"
      THEN R(mm, x, <<Call("xkb_state_key_get_one_sym", "xkb_state", Null,
                           Head(keys) + EvdevOffset, 0)>>, TRUE)
    ELSE R(mm, x, translate_all(c, mm, x, keys), FALSE)

\* wl_keyboard.leave
cb_kb_leave(mm, x) == R(mm, x, <<>>, FALSE)

\* wl_keyboard.key
cb_kb_key(c, mm, x, key, state, ub) ==
    IF mm.m_xkb_state = Null /\ ub = "crash"
      THEN R(mm, x, <<Call("xkb_state_key_get_one_sym", "xkb_state", Null,
                           key + EvdevOffset, 0)>>, TRUE)
    ELSE R(mm, x,
           translate(c, mm, x, key,
                     IF state = WL_KEYBOARD_KEY_STATE_PRESSED
                       THEN "pressed  " ELSE "released "),
           FALSE)

\* Fault: the group of the event is dropped.
cb_kb_modifiers_no_group(mm, x, mods_depressed, mods_latched, mods_locked, group, ub) ==
    LET call == <<Call("xkb_state_update_mask", "xkb_state", mm.m_xkb_state,
                       mods_depressed, 0)>>
    IN IF mm.m_xkb_state = Null
         THEN R(mm, x, call, ub = "crash")
       ELSE R(mm, [x EXCEPT !.mods = <<mods_depressed, mods_latched, mods_locked>>],
              call, FALSE)

\* wl_keyboard.modifiers
cb_kb_modifiers(mm, x, mods_depressed, mods_latched, mods_locked, group, ub) ==
    LET call == <<Call("xkb_state_update_mask", "xkb_state", mm.m_xkb_state,
                       mods_depressed, group)>>
    IN IF mm.m_xkb_state = Null
         THEN R(mm, x, call, ub = "crash")
       ELSE R(mm, [x EXCEPT !.mods = <<mods_depressed, mods_latched, mods_locked>>,
                            !.group = group],
              call, FALSE)

\* wl_keyboard.repeat_info
cb_kb_repeat_info(mm, x) == R(mm, x, <<>>, FALSE)

-----------------------------------------------------------------------------
(* The program *)

\* The end of a constructor or destructor step that ran to status.
Finish(st, next) ==
    Step(st.m, st.out,
         IF st.status = "throw" THEN "failed"
         ELSE IF st.status = "crash" THEN "crashed"
         ELSE next)

\* The library calls that fail in one run of the constructor's second half:
\* none, one of them, or eglCreateWindowSurface (whose result is not
\* checked) and a later one.
Failures ==
    {{}} \cup {{c} : c \in FailPoints \ {"wl_display_connect", "wl_display_get_registry"}}
         \cup {{"eglCreateWindowSurface", c} : c \in {"eglCreateContext", "eglMakeCurrent"}}

\* context::context / Window::Window, lines up to wl_display_dispatch.
Construct ==
    /\ pc = "connect"
    /\ \E fail \in {{}, {"wl_display_connect"}, {"wl_display_get_registry"}} :
         Finish(ctor_connect(cls, m, fail), "dispatch")

\* wl_display_roundtrip returns; the rest of the constructor.  In main the
\* constructed context enters the loop; a Window is handed to its owner.
ConstructTail ==
    /\ pc = "dispatch"
    /\ \E fail \in Failures :
         Finish(ctor_tail(cls, m, fail), IF cls = "context" THEN "loop" ELSE "idle")

\* Fault: the loop never sees the flag.
wants_close_never(mm) == FALSE

\* main's loop condition
wants_close(mm) == mm.m_wants_close

\* update(), first half: wl_display_dispatch_pending is entered.  main calls
\* update while the session does not want to close; a Window's owner may call
\* it at any time.
main_continues == pc = "loop" /\ ~wants_close(m)

UpdateDispatch ==
    /\ \/ main_continues
       \/ pc = "idle"
    /\ Step(m, <<Call("wl_display_dispatch_pending", "wl_display", m.m_wl_display, 0, 0)>>,
            "dispatch_pending")

\* update(), second half: the dispatch call returns and the buffers are
\* swapped; main then clears the back buffer.
update_swap(c, mm) ==
    <<Call("eglSwapBuffers", "egl_surface", mm.m_egl_surface, mm.m_egl_display, 0)>>
    \o (IF c = "context"
          THEN <<Call("glClearColor", "gl", 0, 0, 0), Call("glClear", "gl", 0, 0, 0)>>
        ELSE <<>>)

UpdateSwap ==
    /\ pc = "dispatch_pending"
    /\ Step(m, update_swap(cls, m), IF cls = "context" THEN "loop" ELSE "idle")

\* Window::make_current
MakeCurrent ==
    /\ pc = "idle"
    /\ \E ok \in BOOLEAN :
         Step(m, <<Call("eglMakeCurrent", "egl_context", m.m_egl_context,
                        m.m_egl_surface, IF ok THEN 1 ELSE 0)>>,
              IF ok THEN "idle" ELSE "thrown")

\* main leaves the loop and returns, which destroys the context; a Window is
\* destroyed when its owner decides.
main_leaves == pc = "loop" /\ wants_close(m)

Destroy ==
    /\ \/ main_leaves
       \/ pc = "idle"
    /\ Finish(destructor(cls, m), "done")

-----------------------------------------------------------------------------
(* Events.  The compositor's events are handled inside a dispatch call: the  *)
(* one of the constructor or the one of update().                            *)

InDispatch == pc \in {"dispatch", "dispatch_pending"}

\* The objects of a type that are alive.
Objects(type) == {t[2] : t \in {u \in live : u[1] = type}}

\* The callback for event e ran and returned r.
Deliver(e, r) ==
    /\ m' = r.m
    /\ xkb' = r.xkb
    /\ out' = r.out
    /\ live' = LiveAfter(live, r.out)
    /\ egl_window' = EglWindowAfter(egl_window, r.out)
    /\ ev' = e
    /\ pc' = IF r.crash THEN "crashed" ELSE pc
    /\ closed' = (closed \/ e.kind = "xdg_toplevel.close")
    /\ acked' = (acked \/ \E i \in 1..Len(r.out) :
                            r.out[i].call = "xdg_surface_ack_configure")
    /\ UNCHANGED <<cls, afterClose>>

Counted ==
    /\ nEvents < MaxEvents
    /\ nEvents' = nEvents + 1
    /\ UNCHANGED <<advertised, nGlobals>>

\* A global is announced.  The compositor names the globals of one interface
\* 1, 2, ...; the object bound to a global carries the global's name.
RegistryGlobal ==
    /\ InDispatch
    /\ nGlobals < MaxGlobals
    /\ \E interface \in Interfaces :
         LET id == advertised[interface] + 1
         IN /\ Deliver(Event("wl_registry.global", m.m_registry, interface, id, 0, <<>>),
                       cb_registry_global_add(m, xkb, id, interface))
            /\ advertised' = [advertised EXCEPT ![interface] = id]
    /\ nGlobals' = nGlobals + 1
    /\ UNCHANGED nEvents

RegistryGlobalRemove ==
    /\ InDispatch
    /\ nGlobals > 0
    /\ Counted
    /\ Deliver(Event("wl_registry.global_remove", m.m_registry, "", 0, 0, <<>>),
               cb_registry_global_remove(cls, m, xkb))

XdgBasePing ==
    /\ InDispatch
    /\ Counted
    /\ \E base \in Objects("xdg_wm_base"), serial \in Serials :
         Deliver(Event("xdg_wm_base.ping", base, "", serial, 0, <<>>),
                 cb_xdg_base_ping(m, xkb, base, serial))

SeatCapabilities ==
    /\ InDispatch
    /\ Counted
    /\ \E seat \in Objects("wl_seat"), caps \in Capabilities :
         Deliver(Event("wl_seat.capabilities", seat, "", caps, 0, <<>>),
                 cb_seat_capabilities(cls, m, xkb, seat, caps))

SeatName ==
    /\ InDispatch
    /\ Counted
    /\ \E seat \in Objects("wl_seat") :
         Deliver(Event("wl_seat.name", seat, "", 0, 0, <<>>), cb_seat_name(m, xkb))

\* The surface, the toplevel and the keyboard get their events in update():
\* the constructor does not dispatch after it has created them.
InUpdate == pc = "dispatch_pending"

XdgSurfaceConfigure ==
    /\ InUpdate
    /\ Counted
    /\ \E serial \in Serials :
         Deliver(Event("xdg_surface.configure", m.m_xdg_surface, "", serial, 0, <<>>),
                 cb_xdg_surface_configure(m, xkb, m.m_xdg_surface, serial))

XdgToplevelConfigure ==
    /\ InUpdate
    /\ Counted
    /\ \E width \in Widths, height \in Heights :
         Deliver(Event("xdg_toplevel.configure", m.m_xdg_toplevel, "", width, height, <<>>),
                 cb_xdg_toplevel_configure(cls, m, xkb, width, height))

XdgToplevelClose ==
    /\ InUpdate
    /\ Counted
    /\ Deliver(Event("xdg_toplevel.close", m.m_xdg_toplevel, "", 0, 0, <<>>),
               cb_xdg_toplevel_close(m, xkb))

\* The outcomes a keyboard callback can have: the choice exists only when
\* the callback hands a null derived state to the library.
NullStateOutcomes == IF m.m_xkb_state = Null THEN UBOutcomes ELSE {"continue"}

KbMap ==
    /\ InUpdate
    /\ Counted
    /\ \E kb \in Objects("wl_keyboard"), blob \in Blobs :
         \E ub \in (IF blob = 0 THEN UBOutcomes ELSE {"continue"}) :
           Deliver(Event("wl_keyboard.keymap", kb, "", blob, 0, <<>>),
                   cb_kb_map(m, xkb, blob, nEvents + 1, ub))

KbEnter ==
    /\ InUpdate
    /\ Counted
    /\ \E kb \in Objects("wl_keyboard"), keys \in KeyLists, ub \in NullStateOutcomes :
         Deliver(Event("wl_keyboard.enter", kb, "", 0, 0, keys),
                 cb_kb_enter(cls, m, xkb, keys, ub))

KbLeave ==
    /\ InUpdate
    /\ Counted
    /\ \E kb \in Objects("wl_keyboard") :
         Deliver(Event("wl_keyboard.leave", kb, "", 0, 0, <<>>), cb_kb_leave(m, xkb))

KbKey ==
    /\ InUpdate
    /\ Counted
    /\ \E kb \in Objects("wl_keyboard"), key \in Scancodes, state \in KeyStates,
          ub \in NullStateOutcomes :
         Deliver(Event("wl_keyboard.key", kb, "", key, state, <<>>),
                 cb_kb_key(cls, m, xkb, key, state, ub))

KbModifiers ==
    /\ InUpdate
    /\ Counted
    /\ \E kb \in Objects("wl_keyboard"), dep \in ModMasks, group \in {0, 1},
          ub \in NullStateOutcomes :
         Deliver(Event("wl_keyboard.modifiers", kb, "", dep, group, <<>>),
                 cb_kb_modifiers(m, xkb, dep, 0, 0, group, ub))

KbRepeatInfo ==
    /\ InUpdate
    /\ Counted
    /\ \E kb \in Objects("wl_keyboard") :
         Deliver(Event("wl_keyboard.repeat_info", kb, "", 0, 0, <<>>),
                 cb_kb_repeat_info(m, xkb))

Next ==
    \/ Construct
    \/ ConstructTail
    \/ UpdateDispatch
    \/ UpdateSwap
    \/ MakeCurrent
    \/ Destroy
    \/ RegistryGlobal
    \/ RegistryGlobalRemove
    \/ XdgBasePing
    \/ SeatCapabilities
    \/ SeatName
    \/ XdgSurfaceConfigure
    \/ XdgToplevelConfigure
    \/ XdgToplevelClose
    \/ KbMap
    \/ KbEnter
    \/ KbLeave
    \/ KbKey
    \/ KbModifiers
    \/ KbRepeatInfo

Spec == Init /\ [][Next]_vars

-----------------------------------------------------------------------------
(* Properties *)

Required == {"wl_compositor", "xdg_wm_base"}
Recognised == {"wl_compositor", "xdg_wm_base", "wl_seat", "zxdg_decoration_manager_v1"}

Advertised == {i \in Interfaces : advertised[i] > 0}

\* The capabilities the session holds a handle for.
Bound ==
    {i \in Recognised :
        \/ i = "wl_compositor" /\ m.m_compositor # Null
        \/ i = "xdg_wm_base" /\ m.m_xdg_base # Null
        \/ i = "wl_seat" /\ m.m_seat # Null
        \/ i = "zxdg_decoration_manager_v1" /\ m.m_xdg_dm # Null}

\* The calls named call among cs.
Calls(cs, call) == SelectSeq(cs, LAMBDA c : c.call = call)

\* The round trip of the constructor is over.
PastRoundtrip == pc \notin {"connect", "dispatch", "crashed"}

\* The constructor threw at the required-capability check: it had its
\* registry and issued no call after the round trip.
FailedAtCheck == pc = "failed" /\ m.m_registry # Null /\ out = <<>>

\* The last step was the destructor.
DestructorRan == out # <<>> /\ Head(out).call = "eglDestroyContext"

\* C1: when the globals announced before the round trip ended lack
\* wl_compositor or xdg_wm_base, construction fails at the required-capability
\* check and no surface is created.
C1_MissingRequiredFails ==
    (PastRoundtrip /\ ~(Required \subseteq Advertised))
        => /\ pc = "failed"
           /\ m.m_registry # Null => FailedAtCheck
           /\ m.m_wl_surface = Null
           /\ Calls(out, "wl_compositor_create_surface") = <<>>

C1_Witness ==
    /\ cls = "context"
    /\ FailedAtCheck
    /\ Advertised = {"wl_compositor", "wl_seat", "wl_output"}

\* C2: the handles bound depend only on the set of interfaces announced, and
\* when wl_compositor and xdg_wm_base are among them the required-capability
\* check of context passes, whatever the order of arrival.
C2_BinderOrderIndependent ==
    /\ m.m_registry # Null => Bound = Advertised \cap Recognised
    /\ (cls = "context" /\ PastRoundtrip /\ Required \subseteq Advertised)
          => /\ ~FailedAtCheck
             /\ m.m_compositor # Null
             /\ m.m_xdg_base # Null

\* Both required interfaces arrived among a seat and an unrecognised
\* interface, and the constructor went on to create its surface.
C2_Witness ==
    /\ cls = "context"
    /\ nGlobals = 4
    /\ Advertised = {"wl_compositor", "xdg_wm_base", "wl_seat", "wl_output"}
    /\ Calls(out, "wl_compositor_create_surface") # <<>>
    /\ pc = "loop"

\* C3 as stated: once m_wants_close is set, main's loop issues neither a
\* dispatch call nor a buffer swap.
C3_NoDispatchOrSwapAfterClose ==
    cls = "context" => afterClose = <<>>

\* C3, amended: once a toplevel-close event has set m_wants_close, the loop
\* issues no further dispatch call and exactly one buffer swap, that of the
\* update() in progress, and leaves at its next check of the flag.
C3_OneSwapThenExit ==
    cls = "context" =>
        /\ closed => m.m_wants_close
        /\ afterClose \in {<<>>, <<"eglSwapBuffers">>}
        /\ (pc = "dispatch_pending" /\ m.m_wants_close) => afterClose = <<>>
        /\ (pc = "loop" /\ m.m_wants_close)
              => afterClose = <<"eglSwapBuffers">> /\ main_leaves /\ ~main_continues
        /\ DestructorRan => afterClose = <<"eglSwapBuffers">>

C3_Witness ==
    /\ cls = "context"
    /\ closed
    /\ pc = "done"
    /\ afterClose = <<"eglSwapBuffers">>

\* C4: m_wants_close is true exactly when a toplevel-close event has been
\* dispatched, no step resets it, and main's loop is left only with it set.
C4_CloseFlag ==
    /\ m.m_wants_close <=> closed
    /\ (cls = "context" /\ DestructorRan) => m.m_wants_close

C4_Witness ==
    /\ cls = "context"
    /\ m.m_wants_close
    /\ ev.kind = "wl_seat.capabilities"
    /\ pc = "dispatch_pending"

\* The last step handled a toplevel-configure event.
Configured == ev.kind = "xdg_toplevel.configure"

\* C5: a toplevel-configure whose pair differs from the stored size stores
\* exactly that pair and resizes the native window to it, once, in the
\* callback; so whenever update() swaps, the native window has the stored size.
C5_ResizePropagated ==
    /\ []((cls = "context" /\ pc \in {"loop", "dispatch_pending"})
            => egl_window = <<m.m_width, m.m_height>>)
    /\ [][(cls = "context" /\ Configured' /\ <<ev'.a, ev'.b>> # <<m.m_width, m.m_height>>)
            => /\ m'.m_width = ev'.a
               /\ m'.m_height = ev'.b
               /\ Calls(out', "wl_egl_window_resize")
                    = <<Call("wl_egl_window_resize", "wl_egl_window", m.m_egl_window,
                             ev'.a, ev'.b)>>
               /\ Calls(out', "eglSwapBuffers") = <<>>
               /\ egl_window' = <<ev'.a, ev'.b>>]_vars

C5_Witness ==
    /\ cls = "context"
    /\ Configured
    /\ <<ev.a, ev.b>> = <<640, k_height>>
    /\ <<m.m_width, m.m_height>> = <<640, k_height>>
    /\ Calls(out, "wl_egl_window_resize") # <<>>

\* C6: a toplevel-configure whose pair equals the stored size changes nothing
\* and issues no call (no resize, no commit); the same pair delivered again
\* right after itself changes nothing and issues no call.
C6_UnchangedSizeIsNoOp ==
    [][/\ (Configured' /\ ev'.a = m.m_width /\ ev'.b = m.m_height)
            => (m' = m /\ out' = <<>> /\ egl_window' = egl_window)
       /\ (Configured /\ Configured' /\ ev'.a = ev.a /\ ev'.b = ev.b
           /\ nEvents' = nEvents + 1)
            => (m' = m /\ out' = <<>> /\ egl_window' = egl_window)]_vars

\* The pair just stored is delivered a second time.
C6_Witness ==
    /\ cls = "context"
    /\ Configured
    /\ <<ev.a, ev.b>> = <<640, k_height>>
    /\ <<m.m_width, m.m_height>> = <<640, k_height>>
    /\ out = <<>>

\* C7: a toplevel-configure with a zero width or a zero height leaves the
\* stored size alone and issues no resize and no commit, so the stored width
\* and height of a constructed session are always positive.
C7_ZeroConfigureIgnored ==
    /\ pc \in {"loop", "dispatch_pending", "idle"}
          => (m.m_width > 0 /\ m.m_height > 0)
    /\ (Configured /\ (ev.a = 0 \/ ev.b = 0)) => out = <<>>

\* C8: a surface-configure event with serial s is answered in its callback by
\* exactly one xdg_surface_ack_configure, on the same surface, carrying s.
C8_ConfigureAcked ==
    ev.kind = "xdg_surface.configure"
        => out = <<Call("xdg_surface_ack_configure", "xdg_surface", ev.obj, ev.a, 0)>>

C8_Witness ==
    /\ ev.kind = "xdg_surface.configure"
    /\ ev.a = 2147483647
    /\ ev.obj # Null
    /\ Len(out) = 1

\* C9: a ping with serial s is answered in its callback by exactly one pong to
\* the same xdg_wm_base carrying s, during the constructor's round trip as in
\* update(), whatever the state of the session.
C9_PingPonged ==
    ev.kind = "xdg_wm_base.ping"
        => out = <<Call("xdg_wm_base_pong", "xdg_wm_base", ev.obj, ev.a, 0)>>

\* A ping answered while the constructor is in its round trip.
C9_Witness ==
    /\ ev.kind = "xdg_wm_base.ping"
    /\ pc = "dispatch"
    /\ ev.a = 2147483647
    /\ Len(out) = 1

\* C10: when construction fails, every library object acquired before the
\* failure has been released.
C10_FailedConstructionReleasesAll ==
    pc = "failed" => live = {}

-----------------------------------------------------------------------------
(* Construction with optional capabilities *)

\* The library call c came back with a null or false result.
FailedCall(c) ==
    /\ c.call \in FailPoints
    /\ \/ c.a = Null
       \/ c.call = "eglChooseConfig" /\ c.b = Null
       \/ c.call = "eglMakeCurrent" /\ c.c = Null

LastCall == out[Len(out)]

\* The last step was the second half of the constructor, past the check.
ConstructorRan == out # <<>> /\ Head(out).call = "wl_compositor_create_surface"

SurfaceCalls == {"wl_compositor_create_surface", "xdg_wm_base_get_xdg_surface",
                 "xdg_surface_get_toplevel"}

DecorationCalls == {"zxdg_decoration_manager_v1_get_toplevel_decoration",
                    "zxdg_toplevel_decoration_v1_set_mode"}

\* The calls of cs whose name is in names.
CallsIn(cs, names) == SelectSeq(cs, LAMBDA c : c.call \in names)

\* C11: with wl_compositor and xdg_wm_base announced and neither a decoration
\* manager nor a seat, the required-capability check of context passes and the
\* surface steps run up to the commit (unless a library call returns null), no
\* decoration is requested and no mode is set, and no keyboard is ever held.
C11_MinimalGlobals ==
    (cls = "context" /\ PastRoundtrip /\ Advertised \cap Recognised = Required)
        => /\ ~FailedAtCheck
           /\ pc = "failed" => FailedCall(LastCall)
           /\ (ConstructorRan /\ ~(FailedCall(LastCall) /\ LastCall.call \in SurfaceCalls))
                 => /\ Calls(out, "wl_surface_commit") # <<>>
                    /\ m.m_wl_surface # Null
                    /\ m.m_xdg_surface # Null
                    /\ m.m_xdg_toplevel # Null
           /\ CallsIn(out, DecorationCalls) = <<>>
           /\ m.m_xdg_toplevel_decor = Null
           /\ m.m_wl_keyboard = Null
           /\ Objects("wl_keyboard") = {}

\* The constructor has just finished with exactly the two required globals.
C11_Witness ==
    /\ cls = "context"
    /\ Advertised = Required
    /\ pc = "loop"
    /\ ConstructorRan
    /\ Calls(out, "wl_surface_commit") # <<>>
    /\ m.m_wl_keyboard = Null

-----------------------------------------------------------------------------
(* The input translator *)

\* The state of the input translator, read off the members.
Translator(mm) ==
    IF mm.m_wl_keyboard = Null THEN "Unbound"
    ELSE IF mm.m_xkb_keymap = Null \/ mm.m_xkb_state = Null THEN "Bound-NoKeymap"
    ELSE "Ready"

\* No keymap and no derived state is held.
NoKeymapHeld(mm) == mm.m_xkb_keymap = Null /\ mm.m_xkb_state = Null

\* The observations a step emitted: the lines context prints.
Observations(cs) == Calls(cs, "std::cout")

Observation(action, sym) == Call("std::cout", action, sym, 0, 0)

\* C12: from Unbound with nothing held, a capability event with the keyboard
\* bit leads to Bound-NoKeymap, a keymap event whose blob compiles leads from
\* there to Ready, and a key press of scancode k in Ready emits exactly one
\* observation, (symbol of k + 8, pressed); the first two emit none.
C12_BindMapKey ==
    [][/\ (/\ ev'.kind = "wl_seat.capabilities" /\ keyboard_bit(ev'.a)
            /\ Translator(m) = "Unbound" /\ NoKeymapHeld(m))
          => /\ Translator(m') = "Bound-NoKeymap"
             /\ Observations(out') = <<>>
             /\ pc' = pc
       /\ (/\ ev'.kind = "wl_keyboard.keymap" /\ ev'.a # 0
            /\ Translator(m) = "Bound-NoKeymap")
          => /\ Translator(m') = "Ready"
             /\ Observations(out') = <<>>
             /\ pc' = pc
       /\ (/\ ev'.kind = "wl_keyboard.key" /\ ev'.b = WL_KEYBOARD_KEY_STATE_PRESSED
            /\ Translator(m) = "Ready")
          => /\ Translator(m') = "Ready"
             /\ Calls(out', "xkb_state_key_get_one_sym")
                  = <<Call("xkb_state_key_get_one_sym", "xkb_state", m.m_xkb_state,
                           ev'.a + EvdevOffset, KeySym(xkb, ev'.a + EvdevOffset))>>
             /\ cls = "context"
                  => Observations(out')
                       = <<Observation("pressed  ", KeySym(xkb, ev'.a + EvdevOffset))>>
             /\ pc' = pc]_vars

\* The three events, and nothing else, were delivered to a context: the key
\* press of scancode 30 was resolved as keycode 38.
C12_Witness ==
    /\ cls = "context"
    /\ nEvents = 3
    /\ ev.kind = "wl_keyboard.key"
    /\ ev.a = 30
    /\ ev.b = WL_KEYBOARD_KEY_STATE_PRESSED
    /\ Translator(m) = "Ready"
    /\ xkb.blob = 1
    /\ Observations(out) = <<Observation("pressed  ", KeySym(xkb, 38))>>

\* The symbol the current keymap and derived state give scancode k.
SymOf(k) == KeySym(xkb, k + EvdevOffset)

Lookup(k) ==
    Call("xkb_state_key_get_one_sym", "xkb_state", m.m_xkb_state, k + EvdevOffset, SymOf(k))

\* C13: with a derived state installed, a key event for scancode k and an
\* enter event listing k both look up k + 8 in the current state and get the
\* same symbol; an enter event with n scancodes makes n lookups and, in
\* context, prints n observations, all pressed, in list order; a key event
\* prints one, pressed or released as its state says.
C13_EnterAndKeyAgree ==
    (m.m_xkb_state # Null /\ pc # "crashed") =>
        /\ ev.kind = "wl_keyboard.enter"
              => /\ Calls(out, "xkb_state_key_get_one_sym")
                      = [i \in 1..Len(ev.keys) |-> Lookup(ev.keys[i])]
                 /\ cls = "context"
                      => Observations(out)
                           = [i \in 1..Len(ev.keys) |->
                                Observation("pressed  ", SymOf(ev.keys[i]))]
                 /\ cls = "Window" => Observations(out) = <<>>
        /\ ev.kind = "wl_keyboard.key"
              => /\ Calls(out, "xkb_state_key_get_one_sym") = <<Lookup(ev.a)>>
                 /\ cls = "context"
                      => Observations(out)
                           = <<Observation(IF ev.b = WL_KEYBOARD_KEY_STATE_PRESSED
                                             THEN "pressed  " ELSE "released ",
                                           SymOf(ev.a))>>

\* An enter event listing scancodes 31 and 30 under layout 1: two pressed
\* observations, the second one the symbol a key press of 30 resolves to.
C13_Witness ==
    /\ cls = "context"
    /\ ev.kind = "wl_keyboard.enter"
    /\ ev.keys = <<31, 30>>
    /\ xkb.blob = 1
    /\ m.m_xkb_state # Null
    /\ Len(Observations(out)) = 2
    /\ Observations(out)[2] = Observation("pressed  ", KeySym(xkb, 38))

-----------------------------------------------------------------------------
(* Failures during construction *)

EglCalls == {"eglGetDisplay", "eglInitialize", "eglChooseConfig",
             "eglCreateWindowSurface", "eglCreateContext", "eglMakeCurrent"}

\* C14: in the graphics initialisation sequence a step that fails is the last
\* step executed, and construction has failed at it.
C14_EglFailureFatal ==
    \A i \in 1..Len(out) :
        (FailedCall(out[i]) /\ out[i].call \in EglCalls)
            => (i = Len(out) /\ pc \in {"failed", "thrown"})

\* C15: when a decoration manager is bound the constructor requests the
\* decoration and server-side mode; when the request returns no object the
\* constructor goes on to the commit and calls nothing on the absent object.
C15_DecorationFailureTolerated ==
    /\ \A i \in 1..Len(out) :
          out[i].call = "zxdg_toplevel_decoration_v1_set_mode" => out[i].a # Null
    /\ (ConstructorRan /\ m.m_xdg_dm # Null /\ m.m_xdg_toplevel # Null)
          => /\ Calls(out, "zxdg_decoration_manager_v1_get_toplevel_decoration") # <<>>
             /\ Calls(out, "wl_surface_commit") # <<>>
             /\ pc # "crashed"

\* C16: a Window is constructed past its required-capability check when
\* wl_compositor and xdg_wm_base are announced and no wl_seat is.
C16_WindowSeatOptional ==
    (cls = "Window" /\ PastRoundtrip /\ Required \subseteq Advertised
     /\ "wl_seat" \notin Advertised)
        => ~FailedAtCheck

-----------------------------------------------------------------------------
(* The keyboard handle *)

CapabilitiesEvent(e) == e.kind = "wl_seat.capabilities"

\* C17: a capability event acquires a keyboard (and then adds its listener)
\* only with the keyboard bit set and none held, releases only with the bit
\* clear and one held, namely the one held, and otherwise changes nothing and
\* calls nothing; at most one keyboard object is alive, the one m_wl_keyboard
\* names, and a release is of an object that is alive.
C17_KeyboardAcquireRelease ==
    /\ [](/\ Cardinality(Objects("wl_keyboard")) <= 1
          /\ Objects("wl_keyboard") \subseteq ({m.m_wl_keyboard} \ {Null})
          /\ ~DestructorRan => Objects("wl_keyboard") = {m.m_wl_keyboard} \ {Null})
    /\ [][CapabilitiesEvent(ev') =>
            LET bit == keyboard_bit(ev'.a)
                held == m.m_wl_keyboard # Null
            IN /\ (bit /\ ~held)
                    => /\ m'.m_wl_keyboard # Null
                       /\ out' = <<Call("wl_seat_get_keyboard", "wl_keyboard",
                                        m'.m_wl_keyboard, 0, 0),
                                   Call("wl_keyboard_add_listener", "wl_keyboard",
                                        m'.m_wl_keyboard, 0, 0)>>
               /\ (~bit /\ held)
                    => /\ m'.m_wl_keyboard = Null
                       /\ out' = <<Call("wl_keyboard_release", "wl_keyboard",
                                        m.m_wl_keyboard, 0, 0)>>
                       /\ <<"wl_keyboard", m.m_wl_keyboard>> \in live
                       /\ Objects("wl_keyboard")' = {}
               /\ (bit <=> held) => (m' = m /\ out' = <<>> /\ live' = live)
               /\ [m' EXCEPT !.m_wl_keyboard = Null] = [m EXCEPT !.m_wl_keyboard = Null]
               /\ pc' = pc]_vars

\* A held keyboard has just been released by an event without the bit.
C17_Witness ==
    /\ CapabilitiesEvent(ev)
    /\ ~keyboard_bit(ev.a)
    /\ Calls(out, "wl_keyboard_release") # <<>>
    /\ m.m_wl_keyboard = Null
    /\ Objects("wl_keyboard") = {}

\* C18: once a capability event has released the keyboard, no keymap and no
\* derived state of that keyboard is held: not in Unbound, and not right after
\* a keyboard is acquired again.
C18_ReleaseDiscardsKeymap ==
    /\ Translator(m) = "Unbound" => NoKeymapHeld(m)
    /\ (CapabilitiesEvent(ev) /\ Calls(out, "wl_seat_get_keyboard") # <<>>)
          => NoKeymapHeld(m)

-----------------------------------------------------------------------------
(* Keymap and derived state *)

KeymapEvent(e) == e.kind = "wl_keyboard.keymap"

\* C19: the derived state held was built from the keymap held (the two carry
\* the generation of the keymap event that created them) and no other keymap
\* or state object is alive; a keymap event replaces both and releases the
\* previous keymap and the previous state once each; no other step changes
\* either.
C19_KeymapStateSameGeneration ==
    /\ [](/\ m.m_xkb_state = m.m_xkb_keymap
          /\ Objects("xkb_keymap") \subseteq ({m.m_xkb_keymap} \ {Null})
          /\ Objects("xkb_state") \subseteq ({m.m_xkb_state} \ {Null})
          /\ ~DestructorRan
               => /\ Objects("xkb_keymap") = {m.m_xkb_keymap} \ {Null}
                  /\ Objects("xkb_state") = {m.m_xkb_state} \ {Null})
    /\ [][/\ (KeymapEvent(ev') /\ pc' # "crashed")
              => /\ m'.m_xkb_keymap = (IF ev'.a = 0 THEN Null ELSE nEvents')
                 /\ m'.m_xkb_state = m'.m_xkb_keymap
                 /\ Calls(out', "xkb_keymap_unref")
                      = <<Call("xkb_keymap_unref", "xkb_keymap", m.m_xkb_keymap, 0, 0)>>
                 /\ Calls(out', "xkb_state_unref")
                      = <<Call("xkb_state_unref", "xkb_state", m.m_xkb_state, 0, 0)>>
          /\ (~KeymapEvent(ev') \/ pc' = "crashed")
              => /\ m'.m_xkb_keymap = m.m_xkb_keymap
                 /\ m'.m_xkb_state = m.m_xkb_state
                 /\ (~DestructorRan' => CallsIn(out', {"xkb_keymap_unref",
                                                       "xkb_state_unref"}) = <<>>)]_vars

\* A second keymap event has replaced the keymap and state of the first.
C19_Witness ==
    /\ KeymapEvent(ev)
    /\ ev.a = 1
    /\ m.m_xkb_keymap = 3
    /\ m.m_xkb_state = 3
    /\ Calls(out, "xkb_keymap_unref")
         = <<Call("xkb_keymap_unref", "xkb_keymap", 2, 0, 0)>>
    /\ Objects("xkb_state") = {3}

\* C20: a keymap event whose contents do not compile ends the session: it
\* does not store a null keymap or state over the members and does not leave
\* the session running with a keyboard and no keymap.
C20_BadKeymapFatal ==
    [][(KeymapEvent(ev') /\ ev'.a = 0)
         => /\ pc' \notin {"loop", "idle", "dispatch_pending"}
            /\ m'.m_xkb_keymap = m.m_xkb_keymap
            /\ m'.m_xkb_state = m.m_xkb_state]_vars

-----------------------------------------------------------------------------
(* Modifiers *)

ModifiersEvent(e) == e.kind = "wl_keyboard.modifiers"

\* C21 as stated: with a derived state installed, the modifiers and group
\* under which scancodes are resolved change only at a modifier-change event,
\* whatever other event is delivered.
C21_ModifiersUntilNextModifiers ==
    [][(m.m_xkb_state # Null /\ ~ModifiersEvent(ev'))
         => (xkb'.mods = xkb.mods /\ xkb'.group = xkb.group)]_vars

\* C21, amended: a modifier-change event delivered while Ready sets the
\* modifiers and group to its own; they stay until the next modifier-change
\* event or the next keymap event, which installs a fresh state without
\* modifiers, whatever other event is delivered; and every key translation is
\* resolved under them.
C21_ModifiersUntilNextModifiersOrKeymap ==
    [][/\ (m.m_xkb_state # Null /\ ModifiersEvent(ev'))
          => (xkb'.mods = <<ev'.a, 0, 0>> /\ xkb'.group = ev'.b /\ pc' = pc)
       /\ (KeymapEvent(ev') /\ pc' # "crashed")
          => (xkb'.mods = <<0, 0, 0>> /\ xkb'.group = 0)
       /\ (m.m_xkb_state # Null /\ ~ModifiersEvent(ev') /\ ~KeymapEvent(ev'))
          => (xkb'.mods = xkb.mods /\ xkb'.group = xkb.group)
       /\ (m.m_xkb_state # Null /\ ev'.kind = "wl_keyboard.key")
          => Calls(out', "xkb_state_key_get_one_sym")
               = <<Call("xkb_state_key_get_one_sym", "xkb_state", m.m_xkb_state,
                        ev'.a + EvdevOffset, KeySym(xkb, ev'.a + EvdevOffset))>>]_vars

\* A key is resolved under the modifier and the group of an earlier
\* modifier-change event.
C21_Witness ==
    /\ ev.kind = "wl_keyboard.key"
    /\ m.m_xkb_state # Null
    /\ xkb.mods = <<1, 0, 0>>
    /\ xkb.group = 1
    /\ xkb.blob = 1
    /\ Calls(out, "xkb_state_key_get_one_sym")[1].c = 111000 + ev.a + EvdevOffset

-----------------------------------------------------------------------------
(* Destruction order *)

\* The position of the first call named call in cs, 0 when there is none.
Pos(cs, call) ==
    LET I == {i \in 1..Len(cs) : cs[i].call = call}
    IN IF I = {} THEN 0 ELSE CHOOSE i \in I : \A j \in I : i <= j

ProtocolDestroyCalls ==
    {"wl_region_destroy", "wl_keyboard_release", "zxdg_toplevel_decoration_v1_destroy",
     "xdg_toplevel_destroy", "xdg_surface_destroy", "zxdg_decoration_manager_v1_destroy",
     "wl_seat_destroy", "xdg_wm_base_destroy", "wl_surface_destroy",
     "wl_compositor_destroy", "wl_registry_destroy"}

GlobalDestroyCalls ==
    {"zxdg_decoration_manager_v1_destroy", "wl_seat_destroy", "xdg_wm_base_destroy",
     "wl_compositor_destroy"}

\* The pairs <<a, b>> of release calls where a releases what depends on what
\* b releases.
ReleaseBefore ==
    {<<"eglDestroyContext", "eglDestroySurface">>,
     <<"eglDestroySurface", "wl_egl_window_destroy">>,
     <<"wl_keyboard_release", "wl_seat_destroy">>,
     <<"zxdg_toplevel_decoration_v1_destroy", "xdg_toplevel_destroy">>,
     <<"zxdg_toplevel_decoration_v1_destroy", "zxdg_decoration_manager_v1_destroy">>,
     <<"xdg_toplevel_destroy", "xdg_surface_destroy">>,
     <<"xdg_surface_destroy", "wl_surface_destroy">>,
     <<"xdg_surface_destroy", "xdg_wm_base_destroy">>,
     <<"wl_surface_destroy", "wl_compositor_destroy">>,
     <<"wl_region_destroy", "wl_compositor_destroy">>}
    \cup {<<"wl_egl_window_destroy", b>> : b \in ProtocolDestroyCalls}
    \cup {<<a, "wl_registry_destroy">> : a \in GlobalDestroyCalls}
    \cup {<<a, "wl_display_disconnect">> : a \in ReleaseCalls \ {"wl_display_disconnect"}}

\* C22: the destructor issues its release calls in reverse-dependency order:
\* of two calls it issues, the one that releases the dependent object comes
\* first; a destructor that runs to its end issues every release call once and
\* disconnects last.
C22_ReverseDependencyOrder ==
    DestructorRan =>
        /\ \A p \in ReleaseBefore :
              (Pos(out, p[1]) # 0 /\ Pos(out, p[2]) # 0) => Pos(out, p[1]) < Pos(out, p[2])
        /\ \A p \in ReleaseBefore : Pos(out, p[2]) # 0 => Pos(out, p[1]) # 0
        /\ \A c \in ReleaseCalls : Len(Calls(out, c)) <= 1
        /\ pc = "done"
              => /\ \A c \in ReleaseCalls : Len(Calls(out, c)) = 1
                 /\ LastCall.call = "wl_display_disconnect"

\* A Window was destroyed from its first call to its last.
C22_Witness ==
    /\ cls = "Window"
    /\ pc = "done"
    /\ DestructorRan
    /\ Len(out) = Cardinality(ReleaseCalls)

-----------------------------------------------------------------------------
(* After the handshake *)

\* The bound capability handles.
Handles(mm) == <<mm.m_compositor, mm.m_xdg_base, mm.m_seat, mm.m_xdg_dm>>

\* C23: once the constructor is past its round trip the bound capability
\* handles never change, whatever is dispatched.
C23_HandlesImmutableAfterHandshake ==
    [][pc \notin {"connect", "dispatch"} => Handles(m') = Handles(m)]_vars

\* C24: the callback of a toplevel-configure event issues no surface commit:
\* the surface-configure event that closes its sequence comes after it and
\* has not been acknowledged yet.
C24_NoCommitBeforeAck ==
    Configured => Calls(out, "wl_surface_commit") = <<>>

\* C25: a key, enter or modifier-change callback never hands an absent
\* derived state to the keymap library.
C25_KeyboardCallbacksHaveState ==
    \A i \in 1..Len(out) :
        out[i].call \in {"xkb_state_key_get_one_sym", "xkb_state_update_mask"}
            => out[i].a # Null

\* C26: the destructor calls no release operation on an absent handle, and
\* when it has run to its end no object the session acquired is left alive.
C26_DestructionReleasesExactlyHeld ==
    DestructorRan =>
        /\ \A i \in 1..Len(out) : out[i].a # Null
        /\ pc = "done" => live = {}

\* C27: a buffer swap is issued only after a surface-configure event has been
\* acknowledged.
C27_NoSwapBeforeFirstConfigure ==
    Calls(out, "eglSwapBuffers") # <<>> => acked

====
